---- MODULE Spec2Model ----
(***************************************************************************)
(* A model of Dataclass (src/code/Dataclass.py): the AFMcrop transform,    *)
(* the transform-pipeline builder add_transforms, the dataset/loader       *)
(* manager load_data, the statistics helper get_meanstd, and the preview   *)
(* and display helpers get_batchdata and imshow.                           *)
(*                                                                         *)
(* Python lists are mutable objects passed by reference: the caller's      *)
(* stage lists live in a heap (lists), and a composed pipeline holds the   *)
(* id of the list it was composed from.  The wrapped framework (folder     *)
(* dataset, batch iterator, transforms) is the environment: its outcomes   *)
(* are computed from the directory tree (fs) and from the inputs of each   *)
(* call.                                                                   *)
(***************************************************************************)
EXTENDS Integers, Sequences, FiniteSets, TLC

VARIABLES lists, self, fs, last, completed, cropIn, cropOut

vars == <<lists, self, fs, last, completed, cropIn, cropOut>>

(***************************************************************************)
(* Bounds of the model.                                                    *)
(***************************************************************************)
MaxStages == 5
MaxLoadStages == 3
MaxBatch == 2
MaxStatBatch == 3
MaxFiles == 2
MaxW == 96
MaxH == 2

Splits == {"train", "val"}

(***************************************************************************)
(* IEEE-754 double arithmetic of math.floor(0.7*w), on little-endian bit   *)
(* sequences (the products exceed TLC's integers).                         *)
(***************************************************************************)
RECURSIVE BitsToNat(_)
BitsToNat(b) == IF b = <<>> THEN 0 ELSE Head(b) + 2 * BitsToNat(Tail(b))

RECURSIVE AddBits(_, _, _)
AddBits(a, b, c) ==
    IF a = <<>> /\ b = <<>>
    THEN (IF c = 1 THEN <<1>> ELSE <<>>)
    ELSE LET x == IF a = <<>> THEN 0 ELSE Head(a)
             y == IF b = <<>> THEN 0 ELSE Head(b)
             s == x + y + c
         IN  <<s % 2>> \o AddBits(IF a = <<>> THEN <<>> ELSE Tail(a),
                                  IF b = <<>> THEN <<>> ELSE Tail(b),
                                  s \div 2)

RECURSIVE MulBits(_, _)
MulBits(a, n) ==
    IF n = 0 THEN <<>>
    ELSE LET rest == MulBits(<<0>> \o a, n \div 2)
         IN  IF n % 2 = 1 THEN AddBits(a, rest, 0) ELSE rest

\* The double nearest to 0.7 is 0x16666666666666 * 2^-53: a leading 1 over
\* thirteen hexadecimal 6 digits.
Mant07 == [i \in 1..53 |-> IF i = 53 \/ i % 4 \in {2, 3} THEN 1 ELSE 0]

\* Round a positive integer to 53 significant bits, ties to even.
RoundToDouble(p) ==
    IF Len(p) <= 53 THEN p
    ELSE LET k == Len(p) - 53
             kept == SubSeq(p, k + 1, Len(p))
             sticky == \E i \in 1..(k - 1) : p[i] = 1
             up == p[k] = 1 /\ (sticky \/ kept[1] = 1)
             r == IF up THEN AddBits(kept, <<1>>, 0) ELSE kept
         IN  [i \in 1..k |-> 0] \o r

\* math.floor(0.7 * w) for an int w: the product rounded to a double, then
\* its integer part.
FloorMul07(w) ==
    LET d == RoundToDouble(MulBits(Mant07, w))
    IN  IF Len(d) <= 53 THEN 0 ELSE BitsToNat(SubSeq(d, 54, Len(d)))

\* AFMcrop.__call__: crop(img, top=0, left=0, height=h, width=new_w).
AFMcrop(img) ==
    [set |-> TRUE, top |-> 0, left |-> 0, h |-> img.h, w |-> FloorMul07(img.w)]

NoCrop == [set |-> FALSE, top |-> 0, left |-> 0, h |-> 0, w |-> 0]

(***************************************************************************)
(* Transform stages and the framework's behaviour when they are applied.   *)
(***************************************************************************)
Stage(op, m, s) == [op |-> op, mean |-> m, std |-> s]
ToTensor == Stage("ToTensor", <<>>, <<>>)
Normalize(m, s) == Stage("Normalize", m, s)
CropStage == Stage("AFMcrop", <<>>, <<>>)

\* The folder dataset's default loader converts every image to RGB.
Channels == Len(<<"R", "G", "B">>)

\* The caller's (mean, std) arguments: a fitting pair, and a pair whose length
\* does not match the image channels.
StatChoices ==
    { [mean |-> <<5, 5, 5>>, std |-> <<2, 2, 2>>],
      [mean |-> <<4, 4, 4, 4>>, std |-> <<1, 1, 1, 1>>] }

ListIds == {1, 2}
\* A third heap cell holds the list local to get_meanstd while it runs.
Tmp == 0
InitLists == (Tmp :> <<>>) @@ (1 :> <<>>) @@ (2 :> <<CropStage>>)

Outcome(err, cause) == [err |-> err, cause |-> cause]
Fine == Outcome("none", "none")

\* A vector of statistics broadcasts over the channels when it has one entry
\* per channel or a single entry.
ShapeOk(v) == Len(v) \in {1, Channels}

RECURSIVE Apply(_, _)
Apply(stages, kind) ==
    IF stages = <<>> THEN [err |-> "none", cause |-> "none", kind |-> kind]
    ELSE LET st == Head(stages)
             typeErr == [err |-> "TypeError", cause |-> "type", kind |-> kind]
             shapeErr == [err |-> "RuntimeError", cause |-> "shape", kind |-> kind]
         IN  CASE st.op = "AFMcrop" ->
                    IF kind = "PIL" THEN Apply(Tail(stages), "PIL") ELSE typeErr
               [] st.op = "ToTensor" ->
                    IF kind = "PIL" THEN Apply(Tail(stages), "Tensor") ELSE typeErr
               [] OTHER ->
                    IF kind # "Tensor" THEN typeErr
                    ELSE IF ShapeOk(st.mean) /\ ShapeOk(st.std)
                         THEN Apply(Tail(stages), "Tensor")
                         ELSE shapeErr

\* Fetching one batch: each sample is read (a file that is no image raises
\* OSError) and transformed in turn, then the results are stacked.
RECURSIVE FetchBatch(_, _, _)
FetchBatch(samples, idxs, stages) ==
    IF idxs = <<>>
    THEN (IF Apply(stages, "PIL").kind = "Tensor" THEN Fine
          ELSE Outcome("TypeError", "type"))
    ELSE IF samples[Head(idxs)] = "corrupt" THEN Outcome("OSError", "corrupt")
    ELSE LET r == Apply(stages, "PIL")
         IN  IF r.err # "none" THEN Outcome(r.err, r.cause)
             ELSE FetchBatch(samples, Tail(idxs), stages)

(***************************************************************************)
(* The directory tree and the folder dataset built from it.                *)
(***************************************************************************)
\* A file is "imgA" or "imgB" (readable images), "corrupt" (an image file that
\* cannot be decoded) or "txt" (no image extension: the dataset skips it).
IsImageFile(k) == k # "txt"

Rank(name) == CASE name = "Bad" -> 1 [] name = "Good" -> 2 [] OTHER -> 3

RECURSIVE SortNames(_)
SortNames(S) ==
    IF S = {} THEN <<>>
    ELSE LET m == CHOOSE x \in S : \A y \in S : Rank(x) <= Rank(y)
         IN  <<m>> \o SortNames(S \ {m})

RECURSIVE ImageFiles(_)
ImageFiles(files) ==
    IF files = <<>> THEN <<>>
    ELSE (IF IsImageFile(Head(files)) THEN <<Head(files)>> ELSE <<>>)
         \o ImageFiles(Tail(files))

RECURSIVE Samples(_, _)
Samples(dirs, classes) ==
    IF classes = <<>> THEN <<>>
    ELSE ImageFiles(dirs[Head(classes)]) \o Samples(dirs, Tail(classes))

NoDataset == [classes |-> <<>>, samples |-> <<>>, tf |-> Tmp]

\* datasets.ImageFolder(os.path.join(data_dir, x), transform)
ImageFolder(dir, tf) ==
    IF ~dir.exists \/ DOMAIN dir.dirs = {}
       \/ \E c \in DOMAIN dir.dirs : ImageFiles(dir.dirs[c]) = <<>>
    THEN [err |-> "FileNotFoundError", ds |-> NoDataset]
    ELSE LET classes == SortNames(DOMAIN dir.dirs)
         IN  [err |-> "none",
              ds |-> [classes |-> classes, samples |-> Samples(dir.dirs, classes),
                      tf |-> tf]]

Dir(d) == [exists |-> TRUE, dirs |-> d]
MissingDir == [exists |-> FALSE, dirs |-> <<>>]

FsChoices ==
    { [train |-> Dir(("Good" :> <<"imgB">>) @@ ("Bad" :> <<"corrupt", "txt">>)),
       val |-> Dir(("Ugly" :> <<"imgB">>) @@ ("Good" :> <<"imgA", "imgA">>))],
      [train |-> Dir(("Good" :> <<"imgB">>) @@ ("Bad" :> <<"imgA">>)),
       val |-> MissingDir],
      [train |-> Dir(("Good" :> <<"imgB">>) @@ ("Bad" :> <<"txt">>)),
       val |-> Dir(("Good" :> <<"imgA">>) @@ ("Bad" :> <<"imgA">>))] }

(***************************************************************************)
(* The object and the record of the last call.                             *)
(***************************************************************************)
NoLoader == [ds |-> NoDataset, bs |-> 0, nw |-> 0]

\* Dataclass.__init__ sets data_dir only; every other attribute is absent
\* until a method assigns it (attrs is the set of assigned attributes).
InitSelf ==
    [attrs |-> {"data_dir"},
     mean |-> <<>>, std |-> <<>>,
     data_transforms |-> [x \in Splits |-> Tmp],
     image_datasets |-> [x \in Splits |-> NoDataset],
     dataloaders |-> [x \in Splits |-> NoLoader],
     dataset_sizes |-> [x \in Splits |-> 0],
     class_names |-> <<>>]

NoRet == [mean |-> <<>>, std |-> <<>>, den |-> 0]

NoCall ==
    [op |-> "none", result |-> "ok", cause |-> "none", attempts |-> 0,
     warned |-> FALSE, retryFailed |-> FALSE,
     bs |-> 0, arg |-> Tmp, split |-> "train", pipeline |-> <<>>,
     ret |-> NoRet, nbatches |-> 0, seen |-> <<>>]

(***************************************************************************)
(* add_transforms                                                          *)
(***************************************************************************)
\* list.extend: the list object id grows in place.
Extend(h, id, xs) == [h EXCEPT ![id] = @ \o xs]

\* Faulty variant: the two appended stages in the wrong order.
AddTransformsHeapSwapped(h, tr, va, m, s) ==
    LET h1 == Extend(h, tr, <<Normalize(m, s), ToTensor>>)
    IN  Extend(h1, va, <<Normalize(m, s), ToTensor>>)

\* Lines 69-70: both caller lists are extended in place, train first.
AddTransformsHeap(h, tr, va, m, s) ==
    LET h1 == Extend(h, tr, <<ToTensor, Normalize(m, s)>>)
    IN  Extend(h1, va, <<ToTensor, Normalize(m, s)>>)

\* Lines 65-66 and 73-76: Compose keeps the list it is given, not a copy.
AddTransformsSelf(obj, tr, va, m, s) ==
    [obj EXCEPT !.attrs = @ \cup {"mean", "std", "data_transforms"},
                !.mean = m, !.std = s,
                !.data_transforms = [train |-> tr, val |-> va]]

AddTransforms(tr, va, st) ==
    LET h == AddTransformsHeap(lists, tr, va, st.mean, st.std)
    IN  /\ \A id \in ListIds : Len(h[id]) <= MaxStages
        /\ lists' = h
        /\ self' = AddTransformsSelf(self, tr, va, st.mean, st.std)
        /\ last' = [NoCall EXCEPT !.op = "add_transforms"]
        /\ completed' = completed \cup {"add_transforms"}
        /\ UNCHANGED <<fs, cropIn, cropOut>>

(***************************************************************************)
(* get_batchdata and load_data                                             *)
(***************************************************************************)
Min(a, b) == IF a <= b THEN a ELSE b

\* The first batch of a shuffling iterator: min(batch_size, n) distinct
\* samples in any order.
BatchChoices(n, bs) ==
    { b \in [1..Min(n, bs) -> 1..n] : \A i, j \in DOMAIN b : b[i] = b[j] => i = j }

\* Line 154: next(iter(self.dataloaders[data])).  Creating the iterator of a
\* loader with workers starts the worker processes, which the platform may
\* refuse with a RuntimeError (spawnFails).
FirstUse(h, obj, data, spawnFails, idxs) ==
    IF "dataloaders" \notin obj.attrs THEN Outcome("AttributeError", "attr")
    ELSE LET ld == obj.dataloaders[data]
         IN  IF ld.nw > 0 /\ spawnFails THEN Outcome("RuntimeError", "spawn")
             ELSE FetchBatch(ld.ds.samples, idxs, h[ld.ds.tf])

LoaderBatches(obj, data) ==
    IF "dataloaders" \in obj.attrs
    THEN BatchChoices(Len(obj.dataloaders[data].ds.samples), obj.dataloaders[data].bs)
    ELSE {<<>>}

GetBatchData(data, spawnFails, idxs) ==
    LET out == FirstUse(lists, self, data, spawnFails, idxs)
    IN  /\ last' = [NoCall EXCEPT !.op = "get_batchdata", !.split = data,
                                  !.result = IF out.err = "none" THEN "ok" ELSE out.err,
                                  !.cause = out.cause]
        /\ UNCHANGED <<lists, self, fs, completed, cropIn, cropOut>>

\* The environment of one load_data call: "spawn" (worker processes cannot be
\* created), "ctorPar" / "ctor0" (the iterator constructor is forced to raise
\* a RuntimeError when given workers / when given none).  Only the faults
\* that a call with nw workers can meet are enumerated.
Envs(nw) ==
    IF nw = 0 THEN {{}, {"ctor0"}}
    ELSE {{}, {"spawn"}, {"ctorPar"}, {"ctor0"}, {"spawn", "ctor0"}, {"ctorPar", "ctor0"}}

CtorFails(nw, env) == (nw > 0 /\ "ctorPar" \in env) \/ (nw = 0 /\ "ctor0" \in env)

BuildLoaders(dss, bs, nw) == [x \in Splits |-> [ds |-> dss[x], bs |-> bs, nw |-> nw]]

\* Faulty variant: the retry keeps the requested worker count.
RetryWorkersSame(nw) == nw

\* Line 100: the worker count of the retry.
RetryWorkers(nw) == 0

\* Lines 96-97, the body of the try.
TryBlock(h, obj, bs, nw, env, idxs) ==
    IF CtorFails(nw, env)
    THEN [self |-> obj, out |-> Outcome("RuntimeError", "ctor")]
    ELSE LET o == [obj EXCEPT !.attrs = @ \cup {"dataloaders"},
                              !.dataloaders = BuildLoaders(obj.image_datasets, bs, nw)]
         IN  [self |-> o, out |-> FirstUse(h, o, "train", "spawn" \in env, idxs)]

\* Faulty variant: the class names are taken from the 'val' dataset.
StoreSizesVal(obj) ==
    [obj EXCEPT !.attrs = @ \cup {"dataset_sizes", "class_names"},
                !.dataset_sizes = [x \in Splits |-> Len(obj.image_datasets[x].samples)],
                !.class_names = obj.image_datasets["val"].classes]

\* Lines 103-104.
StoreSizes(obj) ==
    [obj EXCEPT !.attrs = @ \cup {"dataset_sizes", "class_names"},
                !.dataset_sizes = [x \in Splits |-> Len(obj.image_datasets[x].samples)],
                !.class_names = obj.image_datasets["train"].classes]

\* Faulty variant: the sizes are stored although the rebuild raised.
ExceptBlockStores(obj, call, bs, nw, env) ==
    LET c == [call EXCEPT !.warned = TRUE, !.attempts = 2]
    IN  IF CtorFails(0, env)
        THEN [self |-> [obj EXCEPT !.attrs = @ \cup {"dataset_sizes", "class_names"},
                                   !.class_names = obj.image_datasets["train"].classes],
              last |-> [c EXCEPT !.result = "RuntimeError", !.retryFailed = TRUE]]
        ELSE [self |-> [obj EXCEPT !.attrs = @ \cup {"dataloaders", "dataset_sizes", "class_names"},
                                   !.dataloaders = BuildLoaders(obj.image_datasets, bs, 0),
                                   !.dataset_sizes =
                                       [x \in Splits |-> Len(obj.image_datasets[x].samples)],
                                   !.class_names = obj.image_datasets["train"].classes],
              last |-> c]

\* Lines 98-100, the except clause, and what follows it.
ExceptBlock(obj, call, bs, nw, env) ==
    LET c == [call EXCEPT !.warned = TRUE, !.attempts = 2]
    IN  IF CtorFails(RetryWorkers(nw), env)
        THEN [self |-> obj,
              last |-> [c EXCEPT !.result = "RuntimeError", !.retryFailed = TRUE]]
        ELSE [self |-> StoreSizes(
                         [obj EXCEPT !.attrs = @ \cup {"dataloaders"},
                                     !.dataloaders = BuildLoaders(obj.image_datasets, bs,
                                                                  RetryWorkers(nw))]),
              last |-> c]

\* Which exceptions the except clause of line 98 catches.
Caught(err) == err = "RuntimeError"

load_data(h, obj, fsys, bs, nw, env, idxs) ==
    LET call == [NoCall EXCEPT !.op = "load_data", !.bs = bs]
    IN  IF "data_transforms" \notin obj.attrs
        THEN [self |-> obj,
              last |-> [call EXCEPT !.result = "AttributeError", !.cause = "attr"]]
        ELSE
        LET tr == ImageFolder(fsys["train"], obj.data_transforms["train"])
            va == ImageFolder(fsys["val"], obj.data_transforms["val"])
        IN  IF tr.err # "none" \/ va.err # "none"
            THEN [self |-> obj,
                  last |-> [call EXCEPT !.result = "FileNotFoundError", !.cause = "dir"]]
            ELSE
            LET o1 == [obj EXCEPT !.attrs = @ \cup {"image_datasets"},
                                  !.image_datasets = [train |-> tr.ds, val |-> va.ds]]
                try == TryBlock(h, o1, bs, nw, env, idxs)
                c1 == [call EXCEPT !.attempts = 1, !.cause = try.out.cause]
            IN  IF try.out.err = "none"
                THEN [self |-> StoreSizes(try.self), last |-> c1]
                ELSE IF Caught(try.out.err)
                THEN ExceptBlock(try.self, c1, bs, nw, env)
                ELSE [self |-> try.self, last |-> [c1 EXCEPT !.result = try.out.err]]

TrainCount(obj) ==
    IF "data_transforms" \in obj.attrs
    THEN Len(ImageFolder(fs["train"], Tmp).ds.samples)
    ELSE 0

LoadData(bs, nw, env, idxs) ==
    LET r == load_data(lists, self, fs, bs, nw, env, idxs)
    IN  /\ self' = r.self
        /\ last' = r.last
        /\ completed' = IF r.last.result = "ok" THEN completed \cup {"load_data"}
                        ELSE completed
        /\ UNCHANGED <<lists, fs, cropIn, cropOut>>

(***************************************************************************)
(* imshow                                                                  *)
(***************************************************************************)
\* Faulty variant: statistics that were never stored are taken to be neutral.
imshowLenient(obj) ==
    IF "std" \notin obj.attrs \/ "mean" \notin obj.attrs THEN "ok"
    ELSE IF ShapeOk(obj.std) /\ ShapeOk(obj.mean) THEN "ok"
    ELSE "ValueError"

\* Line 171: self.std * inp + self.mean on a channel-last array.
imshow(obj) ==
    IF "std" \notin obj.attrs \/ "mean" \notin obj.attrs THEN "AttributeError"
    ELSE IF ShapeOk(obj.std) /\ ShapeOk(obj.mean) THEN "ok"
    ELSE "ValueError"

Imshow ==
    /\ last' = [NoCall EXCEPT !.op = "imshow", !.result = imshow(self)]
    /\ UNCHANGED <<lists, self, fs, completed, cropIn, cropOut>>

(***************************************************************************)
(* get_meanstd                                                             *)
(***************************************************************************)
\* Per-image, per-channel mean and standard deviation of the two image kinds
\* (in thousandths).
ImgMean(k) == IF k = "imgA" THEN <<100, 200, 300>> ELSE <<400, 400, 400>>
ImgStd(k) == IF k = "imgA" THEN <<10, 20, 30>> ELSE <<0, 0, 0>>

VecAdd(a, b) == [c \in 1..Channels |-> a[c] + b[c]]
Zero == [c \in 1..Channels |-> 0]

\* data.mean(2).sum(0) and data.std(2).sum(0) of one batch.
RECURSIVE BatchSum(_, _, _)
BatchSum(samples, idxs, stat) ==
    IF idxs = <<>> THEN Zero
    ELSE VecAdd(IF stat = "mean" THEN ImgMean(samples[Head(idxs)])
                ELSE ImgStd(samples[Head(idxs)]),
                BatchSum(samples, Tail(idxs), stat))

\* Faulty variant: a last batch shorter than batch_size is dropped.
RECURSIVE ChunksDropLast(_, _)
ChunksDropLast(idxs, bs) ==
    IF Len(idxs) < bs THEN <<>>
    ELSE <<SubSeq(idxs, 1, bs)>> \o ChunksDropLast(SubSeq(idxs, bs + 1, Len(idxs)), bs)

\* The batches of a non-shuffling iterator: the indices in order, batch_size
\* at a time, the last one possibly shorter.
RECURSIVE Chunks(_, _)
Chunks(idxs, bs) ==
    IF idxs = <<>> THEN <<>>
    ELSE LET k == Min(bs, Len(idxs))
         IN  <<SubSeq(idxs, 1, k)>> \o Chunks(SubSeq(idxs, k + 1, Len(idxs)), bs)

\* Lines 118-120.
InitAcc == [err |-> "none", cause |-> "none", mean |-> Zero, std |-> Zero,
            nb |-> 0, nbatches |-> 0, seen |-> <<>>]

\* Lines 132-137.
RECURSIVE MeanStdLoop(_, _, _, _)
MeanStdLoop(samples, stages, batches, acc) ==
    IF batches = <<>> THEN acc
    ELSE LET b == Head(batches)
             out == FetchBatch(samples, b, stages)
         IN  IF out.err # "none"
             THEN [acc EXCEPT !.err = out.err, !.cause = out.cause]
             ELSE MeanStdLoop(samples, stages, Tail(batches),
                    [acc EXCEPT !.mean = VecAdd(@, BatchSum(samples, b, "mean")),
                                !.std = VecAdd(@, BatchSum(samples, b, "std")),
                                !.nb = @ + Len(b),
                                !.nbatches = @ + 1,
                                !.seen = @ \o b])

\* Faulty variant: the caller's list itself is used, not a copy.
NoCopy(h, t) == [heap |-> h, ref |-> t]

\* Line 123: copy.deepcopy makes a fresh list object with the same stages.
DeepCopy(h, t) == [heap |-> [h EXCEPT ![Tmp] = h[t]], ref |-> Tmp]

get_meanstd(h, fsys, t, bs, split) ==
    LET cp == DeepCopy(h, t)
        h2 == Extend(cp.heap, cp.ref, <<ToTensor>>)
        call == [NoCall EXCEPT !.op = "get_meanstd", !.arg = t, !.bs = bs,
                               !.split = split, !.pipeline = h2[cp.ref]]
        built == ImageFolder(fsys[split], cp.ref)
        \* the local list is dropped when the call ends
        hEnd == [h2 EXCEPT ![Tmp] = <<>>]
    IN  IF built.err # "none"
        THEN [heap |-> hEnd, last |-> [call EXCEPT !.result = built.err, !.cause = "dir"]]
        ELSE
        LET n == Len(built.ds.samples)
            acc == MeanStdLoop(built.ds.samples, h2[cp.ref],
                               Chunks([i \in 1..n |-> i], bs), InitAcc)
        IN  IF acc.err # "none"
            THEN [heap |-> hEnd,
                  last |-> [call EXCEPT !.result = acc.err, !.cause = acc.cause]]
            ELSE [heap |-> hEnd,
                  last |-> [call EXCEPT !.ret = [mean |-> acc.mean, std |-> acc.std,
                                                 den |-> acc.nb],
                                        !.nbatches = acc.nbatches,
                                        !.seen = acc.seen]]

GetMeanStd(t, bs, split) ==
    LET r == get_meanstd(lists, fs, t, bs, split)
    IN  /\ lists' = r.heap
        /\ last' = r.last
        /\ UNCHANGED <<self, fs, completed, cropIn, cropOut>>

(***************************************************************************)
(* AFMcrop as an operation, and the specifications.                        *)
(***************************************************************************)
Crop ==
    /\ ~cropOut.set
    /\ cropOut' = AFMcrop(cropIn)
    /\ UNCHANGED <<lists, self, fs, last, completed, cropIn>>

NoImage == [w |-> 0, h |-> 0]

Init ==
    /\ lists = InitLists
    /\ self = InitSelf
    /\ fs \in FsChoices
    /\ last = NoCall
    /\ completed = {}
    /\ cropIn = NoImage
    /\ cropOut = NoCrop

\* The whole object.  The lists are kept shorter here than under SpecPipe.
Next ==
    \/ \E tr \in ListIds, va \in ListIds, st \in StatChoices :
         /\ AddTransforms(tr, va, st)
         /\ \A id \in ListIds : Len(lists'[id]) <= MaxLoadStages
    \/ \E bs \in 1..MaxBatch, nw \in {0, 2} :
         \E env \in Envs(nw), idxs \in BatchChoices(TrainCount(self), bs) : LoadData(bs, nw, env, idxs)
    \/ \E data \in Splits, spawnFails \in BOOLEAN :
         \E idxs \in LoaderBatches(self, data) : GetBatchData(data, spawnFails, idxs)
    \/ \E t \in ListIds, bs \in 1..MaxBatch, split \in Splits : GetMeanStd(t, bs, split)
    \/ Imshow

Spec == Init /\ [][Next]_vars

\* The pipeline builder and the statistics helper alone, over longer lists.
InitPipe ==
    /\ lists = InitLists
    /\ self = InitSelf
    /\ fs = [train |-> Dir(("Good" :> <<"imgB">>) @@ ("Bad" :> <<"imgA", "txt">>)),
             val |-> Dir("Good" :> <<"imgA">>)]
    /\ last = NoCall
    /\ completed = {}
    /\ cropIn = NoImage
    /\ cropOut = NoCrop

NextPipe ==
    \/ \E tr \in ListIds, va \in ListIds, st \in StatChoices : AddTransforms(tr, va, st)
    \/ \E t \in ListIds, bs \in 1..MaxBatch, split \in Splits : GetMeanStd(t, bs, split)

SpecPipe == InitPipe /\ [][NextPipe]_vars

\* AFMcrop alone: every image size within the bounds, cropped once.
InitCrop ==
    /\ lists = InitLists
    /\ self = InitSelf
    /\ fs = [train |-> MissingDir, val |-> MissingDir]
    /\ last = NoCall
    /\ completed = {}
    /\ cropIn \in [w : 10..MaxW, h : 1..MaxH]
    /\ cropOut = NoCrop

SpecCrop == InitCrop /\ [][Crop]_vars

\* get_meanstd alone, over every small "train" tree of readable files.
FileSeqs == UNION { [1..k -> {"imgA", "imgB", "txt"}] : k \in 1..MaxFiles }

FsMS ==
    { [train |-> Dir(("Good" :> g) @@ ("Bad" :> b)),
       val |-> Dir("Good" :> <<"imgA">>)] : g \in FileSeqs, b \in FileSeqs }

InitMS ==
    /\ lists = InitLists
    /\ self = InitSelf
    /\ fs \in FsMS
    /\ last = NoCall
    /\ completed = {}
    /\ cropIn = NoImage
    /\ cropOut = NoCrop

NextMS == \E t \in ListIds, bs \in 1..MaxStatBatch, split \in Splits : GetMeanStd(t, bs, split)

SpecMS == InitMS /\ [][NextMS]_vars

(***************************************************************************)
(* What the directory tree holds, counted without the dataset's own walk.  *)
(***************************************************************************)
ImageCountIn(files) == Cardinality({i \in DOMAIN files : IsImageFile(files[i])})

RECURSIVE CountOver(_, _)
CountOver(dirs, S) ==
    IF S = {} THEN 0
    ELSE LET c == CHOOSE x \in S : TRUE
         IN  ImageCountIn(dirs[c]) + CountOver(dirs, S \ {c})

ImageCount(dir) == CountOver(dir.dirs, DOMAIN dir.dirs)

RECURSIVE StatOfFiles(_, _)
StatOfFiles(files, stat) ==
    IF files = <<>> THEN Zero
    ELSE IF ~IsImageFile(Head(files)) THEN StatOfFiles(Tail(files), stat)
    ELSE VecAdd(IF stat = "mean" THEN ImgMean(Head(files)) ELSE ImgStd(Head(files)),
                StatOfFiles(Tail(files), stat))

RECURSIVE StatOver(_, _, _)
StatOver(dirs, S, stat) ==
    IF S = {} THEN Zero
    ELSE LET c == CHOOSE x \in S : TRUE
         IN  VecAdd(StatOfFiles(dirs[c], stat), StatOver(dirs, S \ {c}, stat))

LastTwo(p) == SubSeq(p, Len(p) - 1, Len(p))

(***************************************************************************)
(* C1: whenever pipelines are stored, the list behind the 'train' pipeline *)
(* and the list behind the 'val' pipeline each end with to-tensor followed *)
(* by normalize with the mean and std of the most recent add_transforms    *)
(* call (the stored mean and std).                                         *)
(***************************************************************************)
C1_LastTwoStages ==
    "data_transforms" \in self.attrs =>
        \A x \in Splits :
            LET p == lists[self.data_transforms[x]]
            IN  /\ Len(p) >= 2
                /\ LastTwo(p) = <<ToTensor, Normalize(self.mean, self.std)>>

\* A list that an earlier call had extended with other statistics is stored again.
C1_Witness ==
    /\ last.op = "add_transforms"
    /\ \E x \in Splits :
         LET p == lists[self.data_transforms[x]]
         IN  Len(p) = 4 /\ p[2] # p[4] /\ p[4] = Normalize(self.mean, self.std)

C3_OnlyWorkerFailureFallsBack ==
    (last.op = "load_data" /\ last.cause \in {"dir", "corrupt", "shape", "type"}) =>
        ~last.warned /\ last.result # "ok"

(***************************************************************************)
(* C4: once load_data has succeeded, dataset_sizes[x] is the number of     *)
(* image files under the class folders of split x, and class_names is the  *)
(* ordered list of the class folders of 'train' alone: ['Bad','Good'] for  *)
(* Bad and Good, whatever 'val' holds and whether or not the fallback ran. *)
(***************************************************************************)
C4_SizesAndClasses ==
    "class_names" \in self.attrs =>
        /\ \A x \in Splits : self.dataset_sizes[x] = ImageCount(fs[x])
        /\ self.class_names = SortNames(DOMAIN fs["train"].dirs)
        /\ (DOMAIN fs["train"].dirs = {"Bad", "Good"} => self.class_names = <<"Bad", "Good">>)

\* Loaded through the fallback, from a tree whose 'val' classes differ.
C4_Witness ==
    /\ last.op = "load_data" /\ last.result = "ok" /\ last.warned
    /\ DOMAIN fs["val"].dirs # DOMAIN fs["train"].dirs
    /\ self.dataset_sizes["train"] # self.dataset_sizes["val"]

(***************************************************************************)
(* C5: when get_meanstd returns for a split of N >= 1 images and batch     *)
(* size B, it has visited the images 1..N once each, in ceil(N/B) batches  *)
(* (N batches when B = 1), counted N images, and returns the sum of the    *)
(* per-image means over N and the sum of the per-image stds over N, which  *)
(* do not depend on B.                                                     *)
(***************************************************************************)
C5_MeanOfImageStats ==
    (last.op = "get_meanstd" /\ last.result = "ok") =>
        LET d == fs[last.split]
            N == ImageCount(d)
            B == last.bs
        IN  /\ N >= 1
            /\ last.seen = [i \in 1..N |-> i]
            /\ last.nbatches = (N + B - 1) \div B
            /\ (B = 1 => last.nbatches = N)
            /\ last.ret.den = N
            /\ last.ret.mean = StatOver(d.dirs, DOMAIN d.dirs, "mean")
            /\ last.ret.std = StatOver(d.dirs, DOMAIN d.dirs, "std")

\* Several batches, the last one shorter than the others.
C5_Witness ==
    /\ last.op = "get_meanstd" /\ last.result = "ok"
    /\ last.nbatches >= 2
    /\ last.ret.den % last.bs # 0

(***************************************************************************)
(* C6: for every image of width W >= 10 and height H, AFMcrop returns the  *)
(* region at (0,0) of width (7*W) div 10 and height H.                     *)
(***************************************************************************)
C6_CropWidth ==
    cropOut.set =>
        /\ cropOut.top = 0 /\ cropOut.left = 0
        /\ cropOut.h = cropIn.h
        /\ cropOut.w = (7 * cropIn.w) \div 10

(***************************************************************************)
(* C7: add_transforms leaves each of its two input lists equal to its      *)
(* content before the call followed by exactly to-tensor and normalize,    *)
(* also when the same list is passed for both.                             *)
(***************************************************************************)
C7_AppendsExactlyTwo ==
    [][\A tr \in ListIds, va \in ListIds, st \in StatChoices :
          AddTransforms(tr, va, st) =>
              /\ lists'[tr] = lists[tr] \o <<ToTensor, Normalize(st.mean, st.std)>>
              /\ lists'[va] = lists[va] \o <<ToTensor, Normalize(st.mean, st.std)>>]_vars

(***************************************************************************)
(* C8: a load_data call builds the iterators at most twice, the second     *)
(* time only after a caught runtime error; a runtime error of the rebuild  *)
(* is not caught again: the call raises it, and dataset_sizes and          *)
(* class_names are as they were before the call.                           *)
(***************************************************************************)
C8_SingleRetry ==
    [][last'.op = "load_data" =>
          /\ last'.attempts <= 2
          /\ (last'.attempts = 2 <=> last'.warned)
          /\ (last'.retryFailed =>
                /\ last'.warned
                /\ last'.result = "RuntimeError"
                /\ self'.dataset_sizes = self.dataset_sizes
                /\ self'.class_names = self.class_names
                /\ self'.attrs \cap {"dataset_sizes", "class_names"}
                     = self.attrs \cap {"dataset_sizes", "class_names"})]_vars

\* The first batch failed for want of worker processes, and the rebuild failed too.
C8_Witness ==
    /\ last.op = "load_data" /\ last.retryFailed /\ last.cause = "spawn"
    /\ "dataset_sizes" \notin self.attrs

(***************************************************************************)
(* C9: get_meanstd, returning or raising, leaves the caller's list and the *)
(* object as they were, and the pipeline it builds is the caller's stages  *)
(* followed by to-tensor, the same at every call with that list.           *)
(***************************************************************************)
C9_WorksOnCopy ==
    [][\A t \in ListIds, bs \in 1..MaxBatch, split \in Splits :
          GetMeanStd(t, bs, split) =>
              /\ lists' = lists
              /\ self' = self
              /\ last'.pipeline = lists[t] \o <<ToTensor>>]_vars

\* Called on a loaded object with a list that add_transforms had extended.
C9_Witness ==
    /\ last.op = "get_meanstd"
    /\ "dataloaders" \in self.attrs
    /\ Len(lists[last.arg]) >= 2
    /\ last.pipeline = lists[last.arg] \o <<ToTensor>>

(***************************************************************************)
(* C10 as claimed: load_data completes only after add_transforms has, and  *)
(* get_meanstd, get_batchdata and imshow complete only after load_data has.*)
(***************************************************************************)
C10_OrderAsClaimed ==
    /\ (last.op = "load_data" /\ last.result = "ok") => "add_transforms" \in completed
    /\ (last.op \in {"get_meanstd", "get_batchdata", "imshow"} /\ last.result = "ok")
          => "load_data" \in completed

(***************************************************************************)
(* C10 as amended: load_data and imshow complete only after add_transforms *)
(* has completed, and get_batchdata only after a load_data call has built  *)
(* the batch iterators (that call need not have completed); called before  *)
(* that, each of the three raises AttributeError.  get_meanstd needs none  *)
(* of them.                                                                *)
(***************************************************************************)
C10_OrderAmended ==
    /\ (last.op \in {"load_data", "imshow"} /\ last.result = "ok")
          => "add_transforms" \in completed
    /\ (last.op \in {"load_data", "imshow"} /\ "add_transforms" \notin completed)
          => last.result = "AttributeError"
    /\ (last.op = "get_batchdata" /\ last.result = "ok")
          => ("dataloaders" \in self.attrs /\ "add_transforms" \in completed)
    /\ (last.op = "get_batchdata" /\ "dataloaders" \notin self.attrs)
          => last.result = "AttributeError"

\* A preview succeeds although no load_data call has completed.
C10_Witness ==
    /\ last.op = "get_batchdata" /\ last.result = "ok"
    /\ "load_data" \notin completed

====
